---- MODULE Spec2Model ----
(***************************************************************************)
(* Model of main.py: the two concurrent URL passes (status check and      *)
(* unshorten) that main() runs over the list of URLs extracted from the   *)
(* message store.                                                          *)
(*                                                                         *)
(* A URL is a sequence of one-character strings, so that startswith,      *)
(* lower(), slicing and the host parsing are computed character by        *)
(* character as the code does.                                             *)
(***************************************************************************)
EXTENDS Integers, Sequences, FiniteSets, TLC

VARIABLES
    pc,           \* position of main(): "load", "status_call", "unshorten_call",
                  \* "submit", "harvest", "shutdown", "done", "aborted", "crashed"
    store,        \* the message store: MISSING, or the URLs its messages hold
    maxWorkersCfg,\* MAX_WORKERS
    mode,         \* UNSHORTEN_MODE
    urls,         \* main(): urls (sorted, unique)
    pass,         \* which pass function is executing: "none", "status", "unshorten"
    target_urls,  \* the list given to executor.submit (urls / target_urls)
    max_workers,  \* executor._max_workers
    submitted,    \* number of executor.submit calls made so far
    work_queue,   \* executor._work_queue: indices of pending work items (FIFO)
    threads,      \* len(executor._threads)
    idle,         \* executor._idle_semaphore
    fut,          \* index -> state of the future of target_urls[index]
    harvested,    \* indices whose future as_completed has yielded and the loop has processed
    results,      \* the pass function's local dict results
    probes,       \* index -> number of times the probe function was entered for it
    executors,    \* number of ThreadPoolExecutor objects created by the current pass
    ret,          \* pass -> "pending", "returned" (the dict returned is results) or "raised"
    status_keys,  \* main(): len(original_to_status), all that main() reads of the
                  \* status dict once build_url_status_dict has returned
    mode_warning, \* build_unshorten_mapping logged the unknown-mode warning
    fn,           \* the pure function applied on its own ("none" inside main())
    fn_arg,       \* its argument
    fn_out        \* the values it returned, in order

vars == <<pc, store, maxWorkersCfg, mode, urls, pass, target_urls, max_workers,
          submitted, work_queue, threads, idle, fut, harvested, results, probes,
          executors, ret, status_keys, mode_warning, fn, fn_arg, fn_out>>

---------------------------------------------------------------------------
(* Bounds of the model *)

\* Largest number of URLs the message store holds in one run.
MaxUrls == 3

\* Largest configured MAX_WORKERS explored.
MaxWorkersBound == 2

---------------------------------------------------------------------------
(* Strings *)

HTTP == <<"h", "t", "t", "p", ":", "/", "/">>
HTTPS == <<"h", "t", "t", "p", "s", ":", "/", "/">>
WWW == <<"w", "w", "w", ".">>

\* str.startswith(prefix)
StartsWith(s, prefix) ==
    /\ Len(s) >= Len(prefix)
    /\ SubSeq(s, 1, Len(prefix)) = prefix

\* s[n:]
Drop(s, n) == SubSeq(s, n + 1, Len(s))

UPPERCASE ==
    <<"A", "B", "C", "D", "E", "F", "G", "H", "I", "J", "K", "L", "M",
      "N", "O", "P", "Q", "R", "S", "T", "U", "V", "W", "X", "Y", "Z">>
LOWERCASE ==
    <<"a", "b", "c", "d", "e", "f", "g", "h", "i", "j", "k", "l", "m",
      "n", "o", "p", "q", "r", "s", "t", "u", "v", "w", "x", "y", "z">>

\* str.lower() of one ASCII character
LowerChar(c) ==
    IF \E i \in 1..26 : UPPERCASE[i] = c
    THEN LOWERCASE[CHOOSE i \in 1..26 : UPPERCASE[i] = c]
    ELSE c

Lower(s) == [i \in 1..Len(s) |-> LowerChar(s[i])]

Contains(s, c) == \E i \in 1..Len(s) : s[i] = c

\* Known shortener domains
SHORTENER_DOMAINS ==
    { <<"b", "i", "t", ".", "l", "y">>,
      <<"t", ".", "c", "o">>,
      <<"g", "o", "o", ".", "g", "l">>,
      <<"t", "i", "n", "y", "u", "r", "l", ".", "c", "o", "m">>,
      <<"o", "w", ".", "l", "y">>,
      <<"b", "u", "f", "f", ".", "l", "y">>,
      <<"b", "i", "t", "l", "y", ".", "c", "o", "m">>,
      <<"i", "s", ".", "g", "d">>,
      <<"t", "i", "n", "y", ".", "c", "c">>,
      <<"n", "e", "w", "s", "p", "r", ".", "e", "s">>,
      <<"t", "i", ".", "m", "e">> }

---------------------------------------------------------------------------
(* URL Classifier *)

\* Variant of normalize_url that knows the http:// prefix only
normalize_url_http_only(url) ==
    IF StartsWith(url, HTTP)
    THEN url
    ELSE HTTP \o url

normalize_url(url) ==
    IF StartsWith(url, HTTP) \/ StartsWith(url, HTTPS)
    THEN url
    ELSE HTTP \o url

\* urlparse(normalized).netloc for a string that starts with http:// or
\* https://: the text between the "//" and the first of "/", "?", "#".
\* PARSE_ERROR stands for the ValueError urlsplit raises on a netloc with an
\* unbalanced bracket.
PARSE_ERROR == <<"ValueError">>

NetlocEnd(rest) ==
    LET stops == {i \in 1..Len(rest) : rest[i] \in {"/", "?", "#"}}
    IN IF stops = {} THEN Len(rest)
       ELSE (CHOOSE i \in stops : \A j \in stops : i <= j) - 1

Netloc(normalized) ==
    LET rest == IF StartsWith(normalized, HTTPS)
                THEN Drop(normalized, Len(HTTPS))
                ELSE Drop(normalized, Len(HTTP))
        netloc == SubSeq(rest, 1, NetlocEnd(rest))
    IN IF Contains(netloc, "[") # Contains(netloc, "]")
       THEN PARSE_ERROR
       ELSE netloc

\* urlparse raises inside is_shortened_url(url)
is_shortened_url_raises(url) == Netloc(normalize_url(url)) = PARSE_ERROR

\* Variant of is_shortened_url that compares the host without lower()
is_shortened_url_case_sensitive(url) ==
    LET normalized == normalize_url(url)
        host == Netloc(normalized)
        stripped == IF StartsWith(host, WWW) THEN Drop(host, 4) ELSE host
    IN stripped \in SHORTENER_DOMAINS

\* is_shortened_url(url), for a url on which urlparse does not raise
is_shortened_url(url) ==
    LET normalized == normalize_url(url)
        host == Lower(Netloc(normalized))
        stripped == IF StartsWith(host, WWW) THEN Drop(host, 4) ELSE host
    IN stripped \in SHORTENER_DOMAINS

---------------------------------------------------------------------------
(* Inputs *)

\* URLs that the messages of the store may hold, in sorted() order.
U_WWW_BITLY == <<"W", "W", "W", ".", "B", "I", "T", ".", "L", "Y", "/", "x">>
U_A == <<"a", ".", "c", "o">>
U_HTTP_A == HTTP \o U_A
U_HTTPS_TCO == HTTPS \o <<"t", ".", "c", "o", "/", "z">>

UrlPool == <<U_WWW_BITLY, U_A, U_HTTP_A, U_HTTPS_TCO>>

\* The set of the elements of a list
UrlSet(xs) == {xs[i] : i \in 1..Len(xs)}

\* The sorted list of the pool's URLs at the positions S
RECURSIVE SortedList(_, _)
SortedList(S, from) ==
    IF from > Len(UrlPool) THEN <<>>
    ELSE IF from \in S THEN <<UrlPool[from]>> \o SortedList(S, from + 1)
    ELSE SortedList(S, from + 1)

UrlLists ==
    {SortedList(S, 1) : S \in {T \in SUBSET (1..Len(UrlPool)) : Cardinality(T) <= MaxUrls}}

\* The message store: the data file is absent, or it holds messages with these URLs
MISSING == [exists |-> FALSE, urls |-> <<>>]
Stores == {MISSING} \cup {[exists |-> TRUE, urls |-> l] : l \in UrlLists}

\* A URL whose authority has an unbalanced bracket, and the sorted lists with it
U_BRACKET == <<"[", "a", ".", "c", "o">>
MalformedLists ==
    { <<U_BRACKET>>,
      <<U_WWW_BITLY, U_BRACKET>>,
      <<U_BRACKET, U_A>>,
      <<U_WWW_BITLY, U_BRACKET, U_A>> }
MalformedStores == {[exists |-> TRUE, urls |-> l] : l \in MalformedLists}

Modes == {"6.1", "6.2", "both", "other"}

\* What the network does to one request
Codes == {200, 404}
FINAL_URL == HTTPS \o <<"r", "e", "a", "l">>
StatusNet == {<<"response", c>> : c \in Codes}
                 \cup {<<"RequestException">>, <<"Exception">>}
UnshortenNet == {<<"response", FINAL_URL>>, <<"RequestException">>, <<"Exception">>}

---------------------------------------------------------------------------
(* Probe Executor *)

None == <<"None">>
StatusCode(c) == <<"int", c>>

\* Variant of check_url_status that returns the normalized URL as the key
check_url_status_normalized_key(url, net) ==
    IF net[1] = "response" THEN <<"return", normalize_url(url), StatusCode(net[2])>>
    ELSE IF net[1] = "RequestException" THEN <<"return", normalize_url(url), None>>
    ELSE <<"raise">>

\* check_url_status(url) when the request ends as net: the returned tuple,
\* or the exception that leaves the function
check_url_status(url, net) ==
    IF net[1] = "response" THEN <<"return", url, StatusCode(net[2])>>
    ELSE IF net[1] = "RequestException" THEN <<"return", url, None>>
    ELSE <<"raise">>

\* Variant of unshorten_url that returns the normalized URL as the key
unshorten_url_normalized_key(url, net) ==
    LET normalized == normalize_url(url)
    IN IF net[1] = "response" THEN <<"return", normalized, net[2]>>
       ELSE IF net[1] = "RequestException" THEN <<"return", normalized, normalized>>
       ELSE <<"raise">>

\* Variant of unshorten_url whose fallback is the URL as given, not normalized
unshorten_url_raw_fallback(url, net) ==
    IF net[1] = "response" THEN <<"return", url, net[2]>>
    ELSE IF net[1] = "RequestException" THEN <<"return", url, url>>
    ELSE <<"raise">>

\* unshorten_url(url) when the request ends as net
unshorten_url(url, net) ==
    LET normalized == normalize_url(url)
    IN IF net[1] = "response" THEN <<"return", url, net[2]>>
       ELSE IF net[1] = "RequestException" THEN <<"return", url, normalized>>
       ELSE <<"raise">>

---------------------------------------------------------------------------
(* Python values *)

EmptyDict == [k \in {} |-> None]

\* d[k] = v
Put(d, k, v) == [x \in (DOMAIN d) \cup {k} |-> IF x = k THEN v ELSE d[x]]

Min(a, b) == IF a <= b THEN a ELSE b

\* [u for u in xs if is_shortened_url(u)]
RECURSIVE ShortenedOf(_)
ShortenedOf(xs) ==
    IF xs = <<>> THEN <<>>
    ELSE IF is_shortened_url(Head(xs))
         THEN <<Head(xs)>> \o ShortenedOf(Tail(xs))
         ELSE ShortenedOf(Tail(xs))

NewFuture == [st |-> "none", net |-> <<"-">>, out |-> <<"-">>]

Running == {i \in DOMAIN fut : fut[i].st = "running"}

PENDING == "pending"
RAISED == "raised"
RETURNED == "returned"

---------------------------------------------------------------------------
(* Result Aggregator: the statistics of build_url_status_dict *)

\* s or 0
OrZero(s) == IF s = None THEN 0 ELSE s[2]

\* isinstance(s, int)
IsInt(s) == s[1] = "int"

\* successful = sum(1 for s in results.values() if isinstance(s, int) and 200 <= s < 400)
Successful(d) ==
    Cardinality({k \in DOMAIN d : IsInt(d[k]) /\ 200 <= d[k][2] /\ d[k][2] < 400})

\* Variant of Failed whose band includes 400
Failed_band_includes_400(d) ==
    Cardinality({k \in DOMAIN d :
                   d[k] = None \/ ~(200 <= OrZero(d[k]) /\ OrZero(d[k]) <= 400)})

\* failed = sum(1 for s in results.values() if s is None or not (200 <= (s or 0) < 400))
Failed(d) ==
    Cardinality({k \in DOMAIN d :
                   d[k] = None \/ ~(200 <= OrZero(d[k]) /\ OrZero(d[k]) < 400)})

---------------------------------------------------------------------------
(* Inputs of the pure functions *)

\* str.upper() of one ASCII character
UpperChar(c) ==
    IF \E i \in 1..26 : LOWERCASE[i] = c
    THEN UPPERCASE[CHOOSE i \in 1..26 : LOWERCASE[i] = c]
    ELSE c

\* The string s with the characters at the positions of mask in upper case
WithCase(s, mask) == [i \in 1..Len(s) |-> IF i \in mask THEN UpperChar(s[i]) ELSE s[i]]

H_BITLY == <<"b", "i", "t", ".", "l", "y">>
H_TCO == <<"t", ".", "c", "o">>
H_ISGD == <<"i", "s", ".", "g", "d">>
H_ACO == <<"a", ".", "c", "o">>
H_XBITLY == <<"x", "b", "i", "t", ".", "l", "y">>
H_BITLYX == <<"b", "i", "t", ".", "l", "y", "x">>
H_BITLY_CO == <<"b", "i", "t", ".", "l", "y", ".", "c", "o">>

\* Hosts in lower case, none with a leading "www."
KnownHosts == {H_BITLY, H_TCO, H_ISGD}
OtherHosts == {H_ACO, H_XBITLY, H_BITLYX, H_BITLY_CO}

SchemePrefixes == {<<>>, HTTP, HTTPS}
WwwPrefixes == {<<>>, WWW, <<"W", "W", "W", ".">>, <<"w", "W", "w", ".">>}
PathSuffixes == {<<>>, <<"/", "x">>, <<"?", "q">>, <<"#", "W", "W", "W", ".", "T", ".", "C", "O">>}

\* A URL in parts: scheme, "www." prefix, host in lower case, the positions
\* of the host in upper case, and what follows the host
UrlParts ==
    UNION {[scheme : SchemePrefixes, www : WwwPrefixes, base : {h},
            mask : SUBSET (1..Len(h)), path : PathSuffixes] :
           h \in KnownHosts \cup OtherHosts}

UrlOf(parts) ==
    parts.scheme \o parts.www \o WithCase(parts.base, parts.mask) \o parts.path

\* Strings given to normalize_url: URLs with and without a scheme, and
\* strings that nearly have one
OddStrings ==
    { <<>>, HTTP, HTTPS, <<"h", "t", "t", "p", ":", "/">>, <<"h", "t", "t", "p", "s", ":", "/">>, <<"h", "t", "t", "p", ":">>, <<"H", "T", "T", "P", ":", "/", "/", "a">>, <<"h", "t", "t">>, <<":", "/", "/", "a">> }

NormalizeInputs ==
    OddStrings \cup {UrlOf(parts) : parts \in {q \in UrlParts : q.mask = {} \/ q.mask = {1}}}

\* Status codes at and around the ends of the band 200..399
BandCodes == {0, 199, 200, 399, 400}

\* The dicts build_url_status_dict can build over the URLs of the pool
StatusDicts ==
    UNION {[K -> {None} \cup {StatusCode(c) : c \in BandCodes}] :
           K \in {T \in SUBSET UrlSet(UrlPool) : Cardinality(T) <= MaxUrls}}

---------------------------------------------------------------------------
(* State machine *)

\* The state when main() starts, the message store being one of S and
\* MAX_WORKERS one of the values W
StartWith(S, W) ==
    /\ pc = "load"
    /\ store \in S
    /\ maxWorkersCfg \in W
    /\ mode \in Modes
    /\ urls = <<>>
    /\ pass = "none"
    /\ target_urls = <<>>
    /\ max_workers = 0
    /\ submitted = 0
    /\ work_queue = <<>>
    /\ threads = 0
    /\ idle = 0
    /\ fut = <<>>
    /\ harvested = {}
    /\ results = EmptyDict
    /\ probes = <<>>
    /\ executors = 0
    /\ ret = [status |-> PENDING, unshorten |-> PENDING]
    /\ status_keys = 0
    /\ mode_warning = FALSE
    /\ fn = "none"
    /\ fn_arg = <<>>
    /\ fn_out = <<>>

Start(W) == StartWith(Stores, W)

\* MAX_WORKERS is positive, as main.py sets it
Init == Start(1..MaxWorkersBound)

\* The messages may also hold a URL with an unbalanced bracket in its authority
InitMalformed == StartWith(Stores \cup MalformedStores, 1..MaxWorkersBound)

\* MAX_WORKERS may also be configured as 0
InitZero == Start(0..MaxWorkersBound)

\* The pass function's locals on entry, before any executor exists
EnterPass(p) ==
    /\ pass' = p
    /\ target_urls' = <<>>
    /\ max_workers' = 0
    /\ submitted' = 0
    /\ work_queue' = <<>>
    /\ threads' = 0
    /\ idle' = 0
    /\ fut' = <<>>
    /\ harvested' = {}
    /\ results' = EmptyDict
    /\ probes' = <<>>
    /\ executors' = 0

\* The pass function's locals once ThreadPoolExecutor(max_workers=workers) exists
\* for the list targets
EnterPool(p, targets, workers) ==
    /\ pass' = p
    /\ target_urls' = targets
    /\ max_workers' = workers
    /\ submitted' = 0
    /\ work_queue' = <<>>
    /\ threads' = 0
    /\ idle' = 0
    /\ fut' = [i \in 1..Len(targets) |-> NewFuture]
    /\ harvested' = {}
    /\ results' = EmptyDict
    /\ probes' = [i \in 1..Len(targets) |-> 0]
    /\ executors' = 1

\* Variant of EffectiveWorkers without the MAX_WORKERS cap: one worker per URL
EffectiveWorkers_uncapped(cfg, n) == n

\* max_workers = min(MAX_WORKERS, len(urls))
EffectiveWorkers(cfg, n) == Min(cfg, n)

\* main(): load_messages and extract_urls_from_messages
LoadMessages ==
    /\ pc = "load"
    /\ IF ~store.exists
       THEN /\ pc' = "aborted"
            /\ urls' = urls
       ELSE /\ pc' = "status_call"
            /\ urls' = store.urls
    /\ UNCHANGED <<store, maxWorkersCfg, mode, pass, target_urls, max_workers,
                   submitted, work_queue, threads, idle, fut, harvested, results,
                   probes, executors, ret, status_keys, mode_warning,
                   fn, fn_arg, fn_out>>

\* build_url_status_dict, up to the creation of the executor
StatusBegin ==
    /\ pc = "status_call"
    /\ LET workers == EffectiveWorkers(maxWorkersCfg, Len(urls))
       IN IF urls = <<>>
          THEN /\ EnterPass("status")
               /\ ret' = [ret EXCEPT !.status = RETURNED]
               /\ pc' = "unshorten_call"
          ELSE IF workers <= 0
          THEN \* ThreadPoolExecutor.__init__ raises ValueError
               /\ EnterPass("status")
               /\ ret' = [ret EXCEPT !.status = RAISED]
               /\ pc' = "crashed"
          ELSE /\ EnterPool("status", urls, workers)
               /\ ret' = ret
               /\ pc' = "submit"
    /\ UNCHANGED <<store, maxWorkersCfg, mode, urls, status_keys, mode_warning,
                   fn, fn_arg, fn_out>>

\* Variant of TargetUrls in which "both" probes the shorteners only
TargetUrls_both_narrow(xs, m) ==
    IF m \in {"6.1", "both"} THEN ShortenedOf(xs)
    ELSE xs

\* Variant of TargetUrls in which an unknown mode probes the shorteners only
TargetUrls_unknown_narrow(xs, m) ==
    IF m \in {"6.2", "both"} THEN xs
    ELSE ShortenedOf(xs)

\* Variant of TargetUrls that ignores the mode
TargetUrls_ignore_mode(xs, m) == xs

\* The target list build_unshorten_mapping chooses for the mode
TargetUrls(xs, m) ==
    IF m = "6.1" THEN ShortenedOf(xs)
    ELSE IF m \in {"6.2", "both"} THEN xs
    ELSE xs

\* The mode takes the else branch, which logs the warning
UnknownMode(m) == m # "6.1" /\ m \notin {"6.2", "both"}

\* build_unshorten_mapping, up to the creation of the executor
UnshortenBegin ==
    /\ pc = "unshorten_call"
    /\ IF urls = <<>>
       THEN /\ EnterPass("unshorten")
            /\ ret' = [ret EXCEPT !.unshorten = RETURNED]
            /\ pc' = "done"
       ELSE IF \E i \in 1..Len(urls) : is_shortened_url_raises(urls[i])
       THEN \* the list comprehension of shortened_urls raises ValueError
            /\ EnterPass("unshorten")
            /\ ret' = [ret EXCEPT !.unshorten = RAISED]
            /\ pc' = "crashed"
       ELSE LET targets == TargetUrls(urls, mode)
                workers == EffectiveWorkers(maxWorkersCfg, Len(targets))
            IN IF targets = <<>>
               THEN /\ EnterPass("unshorten")
                    /\ ret' = [ret EXCEPT !.unshorten = RETURNED]
                    /\ pc' = "done"
               ELSE IF workers <= 0
               THEN /\ EnterPass("unshorten")
                    /\ ret' = [ret EXCEPT !.unshorten = RAISED]
                    /\ pc' = "crashed"
               ELSE /\ EnterPool("unshorten", targets, workers)
                    /\ ret' = ret
                    /\ pc' = "submit"
    /\ mode_warning' = (/\ urls # <<>>
                        /\ \A i \in 1..Len(urls) : ~is_shortened_url_raises(urls[i])
                        /\ UnknownMode(mode))
    /\ UNCHANGED <<store, maxWorkersCfg, mode, urls, status_keys, fn, fn_arg, fn_out>>

\* executor.submit(probe, target_urls[submitted + 1]): the work item is queued
\* and _adjust_thread_count reuses an idle thread or starts a new one
Submit ==
    /\ pc = "submit"
    /\ submitted < Len(target_urls)
    /\ LET i == submitted + 1
       IN /\ submitted' = i
          /\ work_queue' = Append(work_queue, i)
          /\ fut' = [fut EXCEPT ![i].st = "pending"]
          /\ IF idle > 0
             THEN /\ idle' = idle - 1
                  /\ threads' = threads
             ELSE /\ idle' = idle
                  /\ threads' = IF threads < max_workers THEN threads + 1 ELSE threads
          /\ pc' = IF i = Len(target_urls) THEN "harvest" ELSE "submit"
    /\ UNCHANGED <<store, maxWorkersCfg, mode, urls, pass, target_urls, max_workers,
                   harvested, results, probes, executors, ret, status_keys, mode_warning,
                   fn, fn_arg, fn_out>>

PoolAlive == pc \in {"submit", "harvest", "shutdown"}

\* A worker thread that runs no work item takes the head of the queue and
\* enters the probe function
WorkerTake ==
    /\ PoolAlive
    /\ work_queue # <<>>
    /\ Cardinality(Running) < threads
    /\ LET i == Head(work_queue)
       IN /\ work_queue' = Tail(work_queue)
          /\ fut' = [fut EXCEPT ![i].st = "running"]
          /\ probes' = [probes EXCEPT ![i] = @ + 1]
    /\ UNCHANGED <<pc, store, maxWorkersCfg, mode, urls, pass, target_urls,
                   max_workers, submitted, threads, idle, harvested, results,
                   executors, ret, status_keys, mode_warning,
                   fn, fn_arg, fn_out>>

\* The probe function of the current pass
Probe(p, url, net) ==
    IF p = "status" THEN check_url_status(url, net) ELSE unshorten_url(url, net)

NetOf(p) == IF p = "status" THEN StatusNet ELSE UnshortenNet

\* Variant of ProbeFinish that queues the URL again after a transport failure
ProbeFinish_retry ==
    /\ PoolAlive
    /\ \E i \in Running, net \in NetOf(pass) :
          IF net[1] = "RequestException" /\ probes[i] < 2
          THEN /\ fut' = [fut EXCEPT ![i].st = "pending"]
               /\ work_queue' = Append(work_queue, i)
          ELSE /\ fut' = [fut EXCEPT ![i] = [st |-> "finished", net |-> net,
                                            out |-> Probe(pass, target_urls[i], net)]]
               /\ work_queue' = work_queue
    /\ idle' = idle + 1
    /\ UNCHANGED <<pc, store, maxWorkersCfg, mode, urls, pass, target_urls,
                   max_workers, submitted, threads, harvested, results,
                   probes, executors, ret, status_keys, mode_warning,
                   fn, fn_arg, fn_out>>

\* Variant of ProbeFinish in which a transport failure cancels the work items
\* still in the queue
ProbeFinish_cancel_queued ==
    /\ PoolAlive
    /\ \E i \in Running, net \in NetOf(pass) :
          /\ fut' = [fut EXCEPT ![i] = [st |-> "finished", net |-> net,
                                        out |-> Probe(pass, target_urls[i], net)]]
          /\ work_queue' = IF net[1] = "RequestException" THEN <<>> ELSE work_queue
    /\ idle' = idle + 1
    /\ UNCHANGED <<pc, store, maxWorkersCfg, mode, urls, pass, target_urls,
                   max_workers, submitted, threads, harvested, results,
                   probes, executors, ret, status_keys, mode_warning,
                   fn, fn_arg, fn_out>>

\* The request of a running probe ends; the work item sets the future's result
\* or exception and the worker releases the idle semaphore
ProbeFinish ==
    /\ PoolAlive
    /\ \E i \in Running, net \in NetOf(pass) :
          fut' = [fut EXCEPT ![i] = [st |-> "finished", net |-> net,
                                     out |-> Probe(pass, target_urls[i], net)]]
    /\ idle' = idle + 1
    /\ UNCHANGED <<pc, store, maxWorkersCfg, mode, urls, pass, target_urls,
                   max_workers, submitted, work_queue, threads, harvested, results,
                   probes, executors, ret, status_keys, mode_warning,
                   fn, fn_arg, fn_out>>

\* Variant of StatusHarvest that swallows the exception without an entry
StatusHarvest_no_entry(d, i) ==
    IF fut[i].out[1] = "return"
    THEN Put(d, fut[i].out[2], fut[i].out[3])
    ELSE d

\* Variant of StatusHarvest that pairs the k-th completed future with the k-th
\* submitted URL
StatusHarvest_by_position(d, i) ==
    LET url == target_urls[Cardinality(harvested) + 1]
    IN IF fut[i].out[1] = "return"
       THEN Put(d, url, fut[i].out[3])
       ELSE Put(d, url, None)

\* Variant of StatusHarvest that keeps the first value recorded for a URL
\* (results.setdefault)
StatusHarvest_first_wins(d, i) ==
    LET k == IF fut[i].out[1] = "return" THEN fut[i].out[2] ELSE target_urls[i]
    IN IF k \in DOMAIN d
       THEN d
       ELSE IF fut[i].out[1] = "return"
       THEN Put(d, fut[i].out[2], fut[i].out[3])
       ELSE Put(d, target_urls[i], None)

\* One iteration of the as_completed loop of build_url_status_dict for future i:
\* the dict after it
StatusHarvest(d, i) ==
    IF fut[i].out[1] = "return"
    THEN Put(d, fut[i].out[2], fut[i].out[3])
    ELSE Put(d, target_urls[i], None)

\* One iteration of the as_completed loop of build_unshorten_mapping for a
\* future i whose result() returns
UnshortenHarvest(d, i) == Put(d, fut[i].out[2], fut[i].out[3])

\* as_completed yields a finished future and the loop body runs
Harvest ==
    /\ pc = "harvest"
    /\ \E i \in DOMAIN fut :
          /\ fut[i].st = "finished"
          /\ i \notin harvested
          /\ harvested' = harvested \cup {i}
          /\ IF pass = "status"
             THEN /\ results' = StatusHarvest(results, i)
                  /\ pc' = pc
             ELSE IF fut[i].out[1] = "return"
             THEN /\ results' = UnshortenHarvest(results, i)
                  /\ pc' = pc
             ELSE \* future.result() raises; the with block is left
                  /\ results' = results
                  /\ pc' = "shutdown"
    /\ UNCHANGED <<store, maxWorkersCfg, mode, urls, pass, target_urls, max_workers,
                   submitted, work_queue, threads, idle, fut, probes, executors, ret,
                   status_keys, mode_warning,
                   fn, fn_arg, fn_out>>

AllFinished == \A i \in DOMAIN fut : fut[i].st = "finished"

\* The loop is over: executor.__exit__, the statistics, return results
PassReturn ==
    /\ pc = "harvest"
    /\ harvested = DOMAIN fut
    /\ ret' = [ret EXCEPT ![pass] = RETURNED]
    /\ pc' = IF pass = "status" THEN "unshorten_call" ELSE "done"
    /\ status_keys' = IF pass = "status" THEN Cardinality(DOMAIN results) ELSE status_keys
    /\ UNCHANGED <<store, maxWorkersCfg, mode, urls, pass, target_urls, max_workers,
                   submitted, work_queue, threads, idle, fut, harvested, results,
                   probes, executors, mode_warning, fn, fn_arg, fn_out>>

\* Variant of ShutdownRaise that does not join the workers (shutdown(wait=False))
ShutdownRaise_no_wait ==
    /\ pc = "shutdown"
    /\ ret' = [ret EXCEPT ![pass] = RAISED]
    /\ pc' = "crashed"
    /\ UNCHANGED <<store, maxWorkersCfg, mode, urls, pass, target_urls, max_workers,
                   submitted, work_queue, threads, idle, fut, harvested, results,
                   probes, executors, status_keys, mode_warning,
                   fn, fn_arg, fn_out>>

\* executor.__exit__ with an exception in flight: shutdown(wait=True) joins the
\* workers, then the exception leaves the pass function and main()
ShutdownRaise ==
    /\ pc = "shutdown"
    /\ AllFinished
    /\ ret' = [ret EXCEPT ![pass] = RAISED]
    /\ pc' = "crashed"
    /\ UNCHANGED <<store, maxWorkersCfg, mode, urls, pass, target_urls, max_workers,
                   submitted, work_queue, threads, idle, fut, harvested, results,
                   probes, executors, status_keys, mode_warning,
                   fn, fn_arg, fn_out>>

Next ==
    \/ LoadMessages
    \/ StatusBegin
    \/ UnshortenBegin
    \/ Submit
    \/ WorkerTake
    \/ ProbeFinish
    \/ Harvest
    \/ PassReturn
    \/ ShutdownRaise

Spec == Init /\ [][Next]_vars

SpecZero == InitZero /\ [][Next]_vars

SpecMalformed == InitMalformed /\ [][Next]_vars

\* main() up to the return of build_url_status_dict
NextStatus ==
    \/ LoadMessages
    \/ StatusBegin
    \/ Submit
    \/ WorkerTake
    \/ ProbeFinish
    \/ Harvest
    \/ PassReturn

\* main() runs on, the worker threads are scheduled, and every request ends
\* (REQUEST_TIMEOUT): while a step is possible, a step is taken
SpecFair == Init /\ [][NextStatus]_vars /\ WF_vars(NextStatus)

---------------------------------------------------------------------------
(* The passes called on a list that holds a URL more than once *)

\* The sorted lists of 2..MaxUrls URLs over two URLs of the pool in which a
\* URL occurs twice or more: k times "WWW.BIT.LY/x", then "a.co"
DupLists ==
    {xs \in UNION {{[i \in 1..n |-> IF i <= k THEN U_WWW_BITLY ELSE U_A] : k \in 0..n} :
                   n \in 2..MaxUrls} :
        \E i, j \in DOMAIN xs : i # j /\ xs[i] = xs[j]}

\* A caller hands such a list to build_url_status_dict and then to
\* build_unshorten_mapping
InitDup ==
    /\ pc = "status_call"
    /\ urls \in DupLists
    /\ store = [exists |-> TRUE, urls |-> urls]
    /\ maxWorkersCfg \in 1..MaxWorkersBound
    /\ mode \in {"6.1", "both"}
    /\ pass = "none"
    /\ target_urls = <<>>
    /\ max_workers = 0
    /\ submitted = 0
    /\ work_queue = <<>>
    /\ threads = 0
    /\ idle = 0
    /\ fut = <<>>
    /\ harvested = {}
    /\ results = EmptyDict
    /\ probes = <<>>
    /\ executors = 0
    /\ ret = [status |-> PENDING, unshorten |-> PENDING]
    /\ status_keys = 0
    /\ mode_warning = FALSE
    /\ fn = "none"
    /\ fn_arg = <<>>
    /\ fn_out = <<>>

NextDup ==
    \/ StatusBegin
    \/ UnshortenBegin
    \/ Submit
    \/ WorkerTake
    \/ ProbeFinish
    \/ Harvest
    \/ PassReturn
    \/ ShutdownRaise

SpecDup == InitDup /\ [][NextDup]_vars

---------------------------------------------------------------------------
(* The pure functions, each applied to the inputs above *)

\* The passes at rest: main() is not running
AtRest ==
    /\ pc = "pure"
    /\ store = MISSING
    /\ maxWorkersCfg = 1
    /\ mode = "both"
    /\ urls = <<>>
    /\ pass = "none"
    /\ target_urls = <<>>
    /\ max_workers = 0
    /\ submitted = 0
    /\ work_queue = <<>>
    /\ threads = 0
    /\ idle = 0
    /\ fut = <<>>
    /\ harvested = {}
    /\ results = EmptyDict
    /\ probes = <<>>
    /\ executors = 0
    /\ ret = [status |-> PENDING, unshorten |-> PENDING]
    /\ status_keys = 0
    /\ mode_warning = FALSE

mainVars ==
    <<pc, store, maxWorkersCfg, mode, urls, pass, target_urls, max_workers,
      submitted, work_queue, threads, idle, fut, harvested, results, probes,
      executors, ret, status_keys, mode_warning>>

InitPure ==
    /\ AtRest
    /\ fn_out = <<>>
    /\ \/ fn = "normalize_url" /\ fn_arg \in NormalizeInputs
       \/ fn = "is_shortened_url" /\ fn_arg \in UrlParts
       \/ fn = "statistics" /\ fn_arg \in StatusDicts

\* normalize_url(u), then normalize_url of the result
ApplyNormalize ==
    /\ fn = "normalize_url"
    /\ Len(fn_out) < 2
    /\ fn_out' = Append(fn_out,
                        normalize_url(IF fn_out = <<>> THEN fn_arg ELSE fn_out[Len(fn_out)]))
    /\ UNCHANGED <<mainVars, fn, fn_arg>>

\* is_shortened_url(u) for the URL u made of the parts
ApplyClassify ==
    /\ fn = "is_shortened_url"
    /\ fn_out = <<>>
    /\ ~is_shortened_url_raises(UrlOf(fn_arg))
    /\ fn_out' = <<is_shortened_url(UrlOf(fn_arg))>>
    /\ UNCHANGED <<mainVars, fn, fn_arg>>

\* The two counts build_url_status_dict logs for the dict it returns
ApplyStatistics ==
    /\ fn = "statistics"
    /\ fn_out = <<>>
    /\ fn_out' = <<Successful(fn_arg), Failed(fn_arg)>>
    /\ UNCHANGED <<mainVars, fn, fn_arg>>

NextPure == ApplyNormalize \/ ApplyClassify \/ ApplyStatistics

SpecPure == InitPure /\ [][NextPure]_vars

---------------------------------------------------------------------------
(* Properties *)

\* build_url_status_dict has just returned results to main()
StatusReturnedNow == pc = "unshorten_call" /\ ret.status = RETURNED

\* build_unshorten_mapping has just returned results to main()
UnshortenReturnedNow == pc = "done" /\ ret.unshorten = RETURNED

\* The futures whose request ended as the kind of outcome k
EndedAs(k) == {i \in DOMAIN fut : fut[i].st = "finished" /\ fut[i].net[1] = k}

\* C1: for a non-empty list of distinct URLs, whatever the completion order
\* and the outcome of each probe (status code, transport failure, fault),
\* build_url_status_dict returns, and the dict it returns has len(urls)
\* entries whose keys are exactly the input strings.
C1_StatusKeysAreInputs ==
    /\ pass = "status" => ret.status # RAISED
    /\ (StatusReturnedNow /\ urls # <<>>) =>
          /\ DOMAIN results = UrlSet(urls)
          /\ Cardinality(DOMAIN results) = Len(urls)

\* A status pass over a.co without http://a.co has returned after a response,
\* a transport failure and a fault
C1_Witness ==
    /\ StatusReturnedNow
    /\ Len(urls) = 3
    /\ U_A \in UrlSet(urls)
    /\ U_HTTP_A \notin UrlSet(urls)
    /\ EndedAs("response") # {}
    /\ EndedAs("RequestException") # {}
    /\ EndedAs("Exception") # {}

\* C2: in the status pass a fault raised by future.result() does not abort
\* the pool: the loop never leaves the with block by an exception, the URL
\* of a harvested faulty future has the value None, and when the function
\* returns every future has been harvested and every other URL holds the
\* status code (or None) of its own probe.
C2_StatusFaultIsolated ==
    /\ pass = "status" => pc \notin {"shutdown", "crashed"}
    /\ pass = "status" =>
          \A i \in harvested :
             fut[i].net[1] = "Exception" =>
                /\ target_urls[i] \in DOMAIN results
                /\ results[target_urls[i]] = None
    /\ (StatusReturnedNow /\ urls # <<>>) =>
          /\ harvested = DOMAIN fut
          /\ \A i \in DOMAIN fut :
                /\ target_urls[i] \in DOMAIN results
                /\ fut[i].net[1] = "response" =>
                      results[target_urls[i]] = StatusCode(fut[i].net[2])
                /\ fut[i].net[1] # "response" => results[target_urls[i]] = None

\* The faulty future was harvested first, the futures of two other URLs after
\* it, one of them with a status code
C2_Witness ==
    /\ pass = "status"
    /\ pc = "harvest"
    /\ Len(target_urls) = 3
    /\ \E i \in harvested, j \in DOMAIN fut \ harvested :
          /\ fut[i].net[1] = "Exception"
          /\ Cardinality(harvested) = 1
          /\ fut[j].st = "running"

\* C3: in the unshorten pass a fault raised by future.result() is caught at
\* the pool boundary: the loop is not left by an exception, the URL of a
\* harvested faulty future has the failure entry (its normalized form), and
\* build_unshorten_mapping does not raise.
C3_UnshortenFaultIsolated ==
    pass = "unshorten" =>
       /\ pc \notin {"shutdown", "crashed"}
       /\ ret.unshorten # RAISED
       /\ \A i \in harvested :
             fut[i].net[1] = "Exception" =>
                /\ target_urls[i] \in DOMAIN results
                /\ results[target_urls[i]] = normalize_url(target_urls[i])

\* The URLs the policy of the mode selects among the input
ExpectedTargets ==
    IF mode = "6.1"
    THEN {u \in UrlSet(urls) : is_shortened_url(u)}
    ELSE UrlSet(urls)

\* C4: for a non-empty list of distinct URLs and every mode, when every probe
\* returns (a response or a transport failure) build_unshorten_mapping
\* returns, and the keys of the dict it returns are exactly the target set of
\* the mode: one entry per target URL, none for another URL, the original
\* strings as keys.
C4_UnshortenKeysAreTargets ==
    /\ (pass = "unshorten" /\ ret.unshorten = RAISED) => EndedAs("Exception") # {}
    /\ (UnshortenReturnedNow /\ urls # <<>>) =>
          /\ DOMAIN results = ExpectedTargets
          /\ Cardinality(DOMAIN results) = Len(target_urls)
          /\ EndedAs("Exception") = {}

\* A narrow pass over shorteners and other URLs has returned, one of its
\* probes having failed in the transport
C4_Witness ==
    /\ UnshortenReturnedNow
    /\ mode = "6.1"
    /\ Len(urls) = 3
    /\ Len(target_urls) = 2
    /\ U_WWW_BITLY \in DOMAIN results
    /\ EndedAs("RequestException") # {}
    /\ EndedAs("response") # {}

\* C5: a probe that ends in a transport failure yields the entry of its URL,
\* keyed by the original string: None in the status pass, the normalized
\* original URL (a string with a scheme, never None or absent) in the
\* unshorten pass.
C5_TransportFailureEntry ==
    \A i \in harvested :
       fut[i].net[1] = "RequestException" =>
          /\ target_urls[i] \in DOMAIN results
          /\ pass = "status" => results[target_urls[i]] = None
          /\ pass = "unshorten" =>
                /\ results[target_urls[i]] # None
                /\ results[target_urls[i]] \in {target_urls[i], HTTP \o target_urls[i]}
                /\ \/ StartsWith(results[target_urls[i]], HTTP)
                   \/ StartsWith(results[target_urls[i]], HTTPS)

\* The unshorten pass has returned with the fallback entry of a URL that has
\* no scheme
C5_Witness ==
    /\ UnshortenReturnedNow
    /\ \E i \in EndedAs("RequestException") :
          /\ target_urls[i] = U_WWW_BITLY
          /\ results[U_WWW_BITLY] = HTTP \o U_WWW_BITLY

\* C6: at every moment of a pool run the number of probes that have started
\* and not finished is at most min(MAX_WORKERS, number of URLs submitted to
\* the pool).
C6_InFlightBounded ==
    /\ Cardinality(Running) <= maxWorkersCfg
    /\ Cardinality(Running) <= Len(target_urls)

\* Two probes run under MAX_WORKERS = 2 while a third URL waits in the queue
C6_Witness ==
    /\ maxWorkersCfg = 2
    /\ Len(target_urls) = 3
    /\ Cardinality(Running) = 2
    /\ work_queue # <<>>

\* The pool run of the current pass is over: the function returned or raised
\* after creating its executor
RunEnded == executors = 1 /\ pc \in {"unshorten_call", "done", "crashed"}

\* C7: within one pool run every URL of the target list is submitted to the
\* probe exactly once: the list holds no URL twice, no probe function is
\* entered twice for a URL, and when the run ends (by return or by an
\* exception) every URL has been probed once.
C7_ProbedExactlyOnce ==
    /\ \A i, j \in DOMAIN target_urls : target_urls[i] = target_urls[j] => i = j
    /\ \A i \in DOMAIN probes : probes[i] <= 1
    /\ submitted <= Len(target_urls)
    /\ RunEnded =>
          /\ submitted = Len(target_urls)
          /\ \A i \in DOMAIN probes : probes[i] = 1 /\ fut[i].st = "finished"

\* An unshorten run of three URLs ended by an exception after a single
\* harvest, a transport failure among its probes
C7_Witness ==
    /\ RunEnded
    /\ pc = "crashed"
    /\ Len(target_urls) = 3
    /\ Cardinality(harvested) = 1
    /\ EndedAs("RequestException") # {}

\* The value the pass records for a URL whose request ended as net
ExpectedValue(p, url, net) ==
    IF p = "status"
    THEN IF net[1] = "response" THEN StatusCode(net[2]) ELSE None
    ELSE IF net[1] = "response" THEN net[2]
         ELSE IF StartsWith(url, HTTP) \/ StartsWith(url, HTTPS) THEN url
         ELSE HTTP \o url

\* C8: the content of the mapping does not depend on the completion order:
\* after any sequence of harvests the entry of each harvested URL is the value
\* of that URL's own outcome, and the dict a pass returns is the function of
\* the URLs and their outcomes alone.
C8_OrderIndependent ==
    /\ \A i \in harvested :
          (pass = "status" \/ fut[i].net[1] # "Exception") =>
             /\ target_urls[i] \in DOMAIN results
             /\ results[target_urls[i]] = ExpectedValue(pass, target_urls[i], fut[i].net)
    /\ ((StatusReturnedNow \/ UnshortenReturnedNow) /\ executors = 1) =>
          results = [u \in UrlSet(target_urls) |->
                       LET i == CHOOSE j \in DOMAIN target_urls : target_urls[j] = u
                       IN ExpectedValue(pass, u, fut[i].net)]

\* The third URL was harvested before the first, whose probe has ended with a
\* different outcome
C8_Witness ==
    /\ pc = "harvest"
    /\ Len(target_urls) = 3
    /\ harvested = {3}
    /\ fut[1].st = "finished"
    /\ fut[1].net # fut[3].net

\* C9: a pool run with an empty input list, or with MAX_WORKERS = 0 and any
\* input, returns an empty mapping and raises nothing; with an empty input no
\* executor is created and no probe is issued.
C9_DegenerateReturnsEmpty ==
    (pass # "none" /\ (urls = <<>> \/ maxWorkersCfg = 0)) =>
       /\ ret[pass] # RAISED
       /\ pc # "crashed"
       /\ ret[pass] = RETURNED => results = EmptyDict
       /\ urls = <<>> => (executors = 0 /\ threads = 0 /\ DOMAIN probes = {})

\* The URLs of the input that are on a known shortener
ShortenerInputs == UrlSet(urls) \cap {U_WWW_BITLY, U_HTTPS_TCO}

\* The URLs for which the probe function of the current pass was entered
ProbedSet == {target_urls[i] : i \in {j \in DOMAIN probes : probes[j] > 0}}

\* C10: the URLs build_unshorten_mapping probes are fixed by the mode: under
\* "6.1" exactly the input URLs on a known shortener, under "6.2" and "both"
\* the whole input, whatever the hosts; the two broad modes return the same
\* mapping for the same outcomes; the narrow targets are among the broad ones.
C10_TargetsByMode ==
    /\ (pass = "unshorten" /\ executors = 1) =>
          /\ mode = "6.1" => UrlSet(target_urls) = ShortenerInputs
          /\ mode \in {"6.2", "both"} => target_urls = urls
          /\ UrlSet(target_urls) \subseteq UrlSet(urls)
    /\ (pass = "unshorten" /\ pc \in {"done", "crashed"}) =>
          /\ mode = "6.1" => ProbedSet = ShortenerInputs
          /\ mode \in {"6.2", "both"} => ProbedSet = UrlSet(urls)
    /\ (UnshortenReturnedNow /\ mode \in {"6.2", "both"} /\ urls # <<>>) =>
          results = [u \in UrlSet(urls) |->
                       LET i == CHOOSE j \in DOMAIN urls : urls[j] = u
                       IN ExpectedValue("unshorten", u, fut[i].net)]

\* A pass in the mode "both" has returned the entries of a shortener URL and
\* of a URL on another host
C10_Witness ==
    /\ UnshortenReturnedNow
    /\ mode = "both"
    /\ U_A \in DOMAIN results
    /\ U_WWW_BITLY \in DOMAIN results
    /\ ShortenerInputs # UrlSet(urls)

\* C11: with a mode that is none of "6.1", "6.2", "both",
\* build_unshorten_mapping does not fail because of the mode: it logs the
\* warning (and only then), takes the whole input as targets, and returns the
\* mapping the broad mode gives for the same outcomes.
C11_UnknownModeFallsBack ==
    /\ mode_warning => mode \notin {"6.1", "6.2", "both"}
    /\ (pass = "unshorten" /\ mode = "other" /\ urls # <<>>) =>
          /\ mode_warning
          /\ executors = 1
          /\ target_urls = urls
          /\ ret.unshorten = RAISED => EndedAs("Exception") # {}
          /\ UnshortenReturnedNow =>
                results = [u \in UrlSet(urls) |->
                             LET i == CHOOSE j \in DOMAIN urls : urls[j] = u
                             IN ExpectedValue("unshorten", u, fut[i].net)]

\* A pass in an unknown mode has returned the entries of a shortener URL and
\* of two other URLs, after the warning
C11_Witness ==
    /\ UnshortenReturnedNow
    /\ mode = "other"
    /\ mode_warning
    /\ Len(urls) = 3
    /\ DOMAIN results = {U_WWW_BITLY, U_A, U_HTTP_A}

\* C12: in the status pass the timeout or failure of one probe touches only
\* the entry of its URL: it cancels no sibling, queued or running, and does
\* not abort the pool. Every probe ending, a pool run that has started
\* leads to the return of the function with every submitted URL probed once
\* and harvested, the URLs whose request failed holding None and every other
\* URL its own status code, with more URLs than workers too.
C12_StatusPoolTerminates ==
    (pass = "status" /\ pc = "submit")
       ~> (/\ StatusReturnedNow
           /\ harvested = DOMAIN fut
           /\ \A i \in DOMAIN fut :
                 /\ probes[i] = 1
                 /\ fut[i].st = "finished"
                 /\ target_urls[i] \in DOMAIN results
                 /\ fut[i].net[1] = "response" =>
                       results[target_urls[i]] = StatusCode(fut[i].net[2])
                 /\ fut[i].net[1] = "RequestException" =>
                       results[target_urls[i]] = None)

\* With one worker for three URLs the first request failed while the other
\* two were queued; they ran afterwards, got a status code, and the pass
\* returned
C12_Witness ==
    /\ StatusReturnedNow
    /\ maxWorkersCfg = 1
    /\ Len(target_urls) = 3
    /\ fut[1].net[1] = "RequestException"
    /\ fut[2].net[1] = "response"
    /\ fut[3].net[1] = "response"
    /\ results[target_urls[3]] = StatusCode(200)

\* C13: is_shortened_url raises for no input string (a URL whose host cannot
\* be parsed is classified as not a shortener), so the selection of the
\* targets in build_unshorten_mapping is never aborted: the function raises
\* only once its pool exists.
C13_ClassifierNeverRaises ==
    /\ \A i \in DOMAIN urls : ~is_shortened_url_raises(urls[i])
    /\ (pass = "unshorten" /\ ret.unshorten = RAISED) => executors = 1

\* C14: with the message store missing main() aborts: it returns after the
\* failed load with no URL extracted, no pass entered and no probe issued,
\* and the load is not tried again; and nothing else halts the run: no
\* failure of the probe of one URL keeps main() from running to its end.
C14_OnlyMissingStoreHalts ==
    /\ pc = "aborted" =>
          /\ ~store.exists
          /\ urls = <<>>
          /\ pass = "none"
          /\ executors = 0
          /\ DOMAIN probes = {}
          /\ ret = [status |-> PENDING, unshorten |-> PENDING]
    /\ ~store.exists => pc \in {"load", "aborted"}
    /\ pc # "crashed"

\* The string s begins with the string p
HasPrefix(s, p) == Len(s) >= Len(p) /\ \A i \in 1..Len(p) : s[i] = p[i]

\* The status codes of the band 200..399 among those of the inputs
SuccessValues == {StatusCode(200), StatusCode(399)}

\* C15: of the entries of a status dict, the success count is the number
\* whose code is present and within 200..399, the failure count is the
\* number of all the others (code absent, 0, below 200, or 400 and above),
\* and the two counts add up to the number of entries.
C15_CountsPartitionEntries ==
    (fn = "statistics" /\ fn_out # <<>>) =>
        /\ fn_out[1] = Cardinality({k \in DOMAIN fn_arg : fn_arg[k] \in SuccessValues})
        /\ fn_out[2] = Cardinality({k \in DOMAIN fn_arg : fn_arg[k] \notin SuccessValues})
        /\ fn_out[1] + fn_out[2] = Cardinality(DOMAIN fn_arg)

\* Three URLs that all answered 200 were counted as 3 successes, 0 failures
C15_Witness ==
    /\ fn = "statistics"
    /\ fn_out = <<3, 0>>
    /\ \A k \in DOMAIN fn_arg : fn_arg[k] = StatusCode(200)

\* C16: a URL whose host is, in any mix of cases and with or without one
\* leading "www.", one of the shortener domains is a shortener, with or
\* without a scheme and whatever follows the host; a URL whose host is,
\* lower-cased and stripped of one "www.", not in the set is not.
C16_HostMatchIgnoresCaseAndWww ==
    (fn = "is_shortened_url" /\ fn_out # <<>>) =>
        fn_out[1] = (fn_arg.base \in KnownHosts)

\* The URL "WWW.BIT.LY/x" was classified as a shortener
C16_Witness ==
    /\ fn = "is_shortened_url"
    /\ fn_arg = [scheme |-> <<>>, www |-> <<"W", "W", "W", ".">>, base |-> H_BITLY,
                 mask |-> 1..Len(H_BITLY), path |-> <<"/", "x">>]
    /\ UrlOf(fn_arg) = U_WWW_BITLY
    /\ fn_out = <<TRUE>>

\* C17: normalize_url returns, for every string u, a string that begins
\* with http:// or https://: u itself when u already begins with one of
\* them, http:// followed by u otherwise; normalizing the result again
\* changes nothing.
C17_NormalizeIdempotent ==
    (fn = "normalize_url" /\ fn_out # <<>>) =>
        /\ HasPrefix(fn_out[1], HTTP) \/ HasPrefix(fn_out[1], HTTPS)
        /\ fn_out[1] = IF HasPrefix(fn_arg, HTTP) \/ HasPrefix(fn_arg, HTTPS)
                       THEN fn_arg
                       ELSE HTTP \o fn_arg
        /\ Len(fn_out) = 2 => fn_out[2] = fn_out[1]

\* "a.co" was normalized twice, and only the first pass added http://
C17_Witness ==
    /\ fn = "normalize_url"
    /\ fn_arg = H_ACO
    /\ fn_out = <<HTTP \o H_ACO, HTTP \o H_ACO>>

\* No pass function is executing: main() is before, between or after them
OutsidePasses ==
    pc \in {"load", "status_call", "unshorten_call", "done", "crashed", "aborted"}

\* C18: a pass function leaves no probe behind it: once it has returned or
\* raised, no probe is running and none is queued, and every probe that was
\* submitted ran once, to completion; so a running probe always belongs to
\* the pass in progress, and an unshorten probe runs only after the status
\* pass has returned.
C18_NoProbeOutlivesItsPass ==
    /\ OutsidePasses =>
          /\ Running = {}
          /\ work_queue = <<>>
          /\ \A i \in 1..submitted : fut[i].st = "finished" /\ probes[i] = 1
    /\ Running # {} =>
          /\ PoolAlive
          /\ ret[pass] = PENDING
          /\ pass = "unshorten" => ret.status = RETURNED

\* With a single worker the unshorten pass raised at its first harvest, two
\* probes then still in the queue; all three had run when it left
C18_Witness ==
    /\ pc = "crashed"
    /\ pass = "unshorten"
    /\ max_workers = 1
    /\ submitted = 3
    /\ harvested = {1}
    /\ fut[1].net[1] = "Exception"
    /\ \A i \in 1..3 : fut[i].st = "finished"

\* C19: with a non-empty input, build_unshorten_mapping in the mode "6.1"
\* on URLs none of which is on a known shortener returns the empty mapping
\* with no executor created and no probe entered; in every other mode it
\* creates the executor for the whole input, and the run ends with every
\* input URL probed once.
C19_PoolSkippedOnlyWhenNarrowAndNoShortener ==
    /\ (pass = "unshorten" /\ urls # <<>> /\ mode = "6.1" /\ ShortenerInputs = {}) =>
          /\ pc = "done"
          /\ ret.unshorten = RETURNED
          /\ results = EmptyDict
          /\ executors = 0
          /\ submitted = 0
          /\ probes = <<>>
    /\ (pass = "unshorten" /\ urls # <<>> /\ mode # "6.1") =>
          /\ executors = 1
          /\ target_urls = urls
          /\ Len(probes) = Len(urls)
          /\ pc \in {"done", "crashed"} => \A i \in DOMAIN urls : probes[i] = 1

\* The narrow pass over "a.co" and "http://a.co" returned without a pool
C19_Witness ==
    /\ pc = "done"
    /\ pass = "unshorten"
    /\ mode = "6.1"
    /\ UrlSet(urls) = {U_A, U_HTTP_A}
    /\ executors = 0
    /\ results = EmptyDict

\* A URL occurs more than once in the list
HasDuplicates(xs) == \E i, j \in DOMAIN xs : i # j /\ xs[i] = xs[j]

\* The pass in progress has returned its dict after a pool run
PoolRunReturned ==
    /\ executors = 1
    /\ \/ pass = "status" /\ StatusReturnedNow
       \/ pass = "unshorten" /\ UnshortenReturnedNow

\* What a returned dict holds when the list had duplicates
DuplicatesCollapse ==
    (PoolRunReturned /\ HasDuplicates(target_urls)) =>
        /\ submitted = Len(target_urls)
        /\ \A i \in DOMAIN target_urls : probes[i] = 1
        /\ DOMAIN results = UrlSet(target_urls)
        /\ Cardinality(DOMAIN results) < Len(target_urls)
        /\ \A u \in DOMAIN results :
              \E i \in DOMAIN target_urls :
                 /\ target_urls[i] = u
                 /\ results[u] = ExpectedValue(pass, u, fut[i].net)

\* A harvest that records a value sets the entry of the future's URL to the
\* value of that future, whatever the entry held, and changes no other entry
LastHarvestWins ==
    \A i \in harvested' \ harvested :
        (pass = "status" \/ fut[i].out[1] = "return") =>
            /\ DOMAIN results' = DOMAIN results \cup {target_urls[i]}
            /\ results'[target_urls[i]] = ExpectedValue(pass, target_urls[i], fut[i].net)
            /\ \A u \in DOMAIN results \ {target_urls[i]} : results'[u] = results[u]

\* C20: when the list holds the same URL more than once, each occurrence is
\* submitted and probed on its own, the returned dict has one entry per
\* distinct URL (fewer entries than the list has elements), and the entry
\* of a URL is the value of the probe of that URL harvested last.
C20_DuplicateLastHarvestWins == []DuplicatesCollapse /\ [][LastHarvestWins]_vars

\* The status pass over "a.co" twice returned one entry; the first probe
\* answered 200, the second 404, and the entry is 200: the first was
\* harvested last
C20_Witness ==
    /\ PoolRunReturned
    /\ pass = "status"
    /\ target_urls = <<U_A, U_A>>
    /\ fut[1].net = <<"response", 200>>
    /\ fut[2].net = <<"response", 404>>
    /\ results = [u \in {U_A} |-> StatusCode(200)]

====
